---- MODULE Spec2Model ----
(***************************************************************************)
(* Model of the i18n key scanner (src/src/scan.ts): extraction of literal  *)
(* translation keys from source text, and runScan's load / reconcile /     *)
(* persist cycle over the per-locale JSON dictionaries.                    *)
(*                                                                         *)
(* Strings are sequences of characters.  A character is a one-element      *)
(* string, except for the characters that need escaping, which are named   *)
(* (SQ, DQ, BT, BS, NL, SP).                                               *)
(***************************************************************************)
EXTENDS Integers, Sequences, FiniteSets, TLC

SQ == "squote"
DQ == "dquote"
BT == "backtick"
BS == "backslash"
NL == "newline"
SP == "space"

Lower == <<"a", "b", "c", "d", "e", "f", "g", "h", "i", "j", "k", "l", "m",
           "n", "o", "p", "q", "r", "s", "t", "u", "v", "w", "x", "y", "z">>
Digits == <<"0", "1", "2", "3", "4", "5", "6", "7", "8", "9">>

Range(s) == {s[i] : i \in 1..Len(s)}

IndexOf(s, x) == CHOOSE i \in 1..Len(s) : s[i] = x

IsDigit(c) == c \in Range(Digits)

DigitVal(c) == IndexOf(Digits, c) - 1

\* UTF-16 code unit of a character, the order String.prototype comparison uses.
CharCode(c) ==
    CASE c = NL -> 10
      [] c = SP -> 32
      [] c = DQ -> 34
      [] c = "$" -> 36
      [] c = SQ -> 39
      [] c = "(" -> 40
      [] c = ")" -> 41
      [] c = "." -> 46
      [] IsDigit(c) -> 48 + DigitVal(c)
      [] c = "@" -> 64
      [] c = "H" -> 72
      [] c = BS -> 92
      [] c = "_" -> 95
      [] c = BT -> 96
      [] c \in Range(Lower) -> 96 + IndexOf(Lower, c)

(***************************************************************************)
(* Regular expressions of CALL_PATTERNS, matched as RegExp.prototype.exec  *)
(* matches them.                                                           *)
(***************************************************************************)

\* \s
IsSpace(c) == c \in {SP, NL}

\* . (any character but a line terminator)
Dot(c) == c # NL

\* A literal at position i of s.
LitAt(s, i, lit) ==
    /\ i + Len(lit) - 1 <= Len(s)
    /\ \A j \in 1..Len(lit) : s[i + j - 1] = lit[j]

\* \s* from position i: the position after the (greedy) run of white space.
RECURSIVE SkipSpace(_, _)
SkipSpace(s, i) ==
    IF i <= Len(s) /\ IsSpace(s[i]) THEN SkipSpace(s, i + 1) ELSE i

\* (?:(?!\1|\\).|\\.)* from position i with \1 = q: the position after the
\* longest run of items.  An item is a character that is neither the quote nor
\* a backslash nor a line terminator, or a backslash and the character after it.
RECURSIVE QuotedEnd(_, _, _)
QuotedEnd(s, i, q) ==
    IF i > Len(s) THEN i
    ELSE IF s[i] = BS
         THEN IF i + 1 <= Len(s) /\ Dot(s[i + 1]) THEN QuotedEnd(s, i + 2, q) ELSE i
         ELSE IF s[i] # q /\ Dot(s[i]) THEN QuotedEnd(s, i + 1, q) ELSE i

\* [^`$]* from position i.
RECURSIVE TemplateEnd(_, _)
TemplateEnd(s, i) ==
    IF i <= Len(s) /\ s[i] \notin {BT, "$"} THEN TemplateEnd(s, i + 1) ELSE i

NoMatch == [found |-> FALSE, end |-> 0, key |-> <<>>]

\* \s*(['"`])((?:(?!\1|\\).|\\.)+)\1\s*\) from position i; the key is group 2.
QuotedArgAt(s, i) ==
    LET j == SkipSpace(s, i) IN
    IF j > Len(s) \/ s[j] \notin {SQ, DQ, BT} THEN NoMatch
    ELSE LET e == QuotedEnd(s, j + 1, s[j]) IN
         IF e = j + 1 \/ e > Len(s) \/ s[e] # s[j] THEN NoMatch
         ELSE LET k == SkipSpace(s, e + 1) IN
              IF k <= Len(s) /\ s[k] = ")"
              THEN [found |-> TRUE, end |-> k + 1, key |-> SubSeq(s, j + 1, e - 1)]
              ELSE NoMatch

\* \s*`([^`$]+)`\s*\) from position i; the key is group 1.
TemplateArgAt(s, i) ==
    LET j == SkipSpace(s, i) IN
    IF j > Len(s) \/ s[j] # BT THEN NoMatch
    ELSE LET e == TemplateEnd(s, j + 1) IN
         IF e = j + 1 \/ e > Len(s) \/ s[e] # BT THEN NoMatch
         ELSE LET k == SkipSpace(s, e + 1) IN
              IF k <= Len(s) /\ s[k] = ")"
              THEN [found |-> TRUE, end |-> k + 1, key |-> SubSeq(s, j + 1, e - 1)]
              ELSE NoMatch

ShortAlias == <<"_", "_", "(">>
VerboseAlias == <<"t", "r", "a", "n", "s", "(">>
DirectiveAlias == <<"@", "l", "a", "n", "g", "(">>

\* (?:__|trans)\( at position i: the position after it, 0 when it does not match.
AliasEnd(s, i) ==
    IF LitAt(s, i, ShortAlias) THEN i + Len(ShortAlias)
    ELSE IF LitAt(s, i, VerboseAlias) THEN i + Len(VerboseAlias)
    ELSE 0

DirectiveEnd(s, i) ==
    IF LitAt(s, i, DirectiveAlias) THEN i + Len(DirectiveAlias) ELSE 0

NumPatterns == 3

\* CALL_PATTERNS[p] anchored at position i of s.
MatchAt(p, s, i) ==
    CASE p = 1 -> IF AliasEnd(s, i) = 0 THEN NoMatch ELSE QuotedArgAt(s, AliasEnd(s, i))
      [] p = 2 -> IF DirectiveEnd(s, i) = 0 THEN NoMatch ELSE QuotedArgAt(s, DirectiveEnd(s, i))
      [] p = 3 -> IF AliasEnd(s, i) = 0 THEN NoMatch ELSE TemplateArgAt(s, AliasEnd(s, i))

\* re.exec(source) with re.lastIndex = from - 1: the leftmost match at or after
\* from.
RECURSIVE Exec(_, _, _)
Exec(p, s, from) ==
    IF from > Len(s) THEN NoMatch
    ELSE IF MatchAt(p, s, from).found THEN MatchAt(p, s, from)
    ELSE Exec(p, s, from + 1)

\* str.replace(/<a><b>/g, r): every non-overlapping occurrence, left to right.
RECURSIVE ReplaceAll(_, _, _, _)
ReplaceAll(str, a, b, r) ==
    IF Len(str) < 2 THEN str
    ELSE IF str[1] = a /\ str[2] = b
         THEN <<r>> \o ReplaceAll(SubSeq(str, 3, Len(str)), a, b, r)
         ELSE <<str[1]>> \o ReplaceAll(Tail(str), a, b, r)

unescapeString(str) ==
    ReplaceAll(ReplaceAll(ReplaceAll(str, BS, SQ, SQ), BS, DQ, DQ), BS, BS, BS)

\* Set.prototype.add on an insertion-ordered set.
SetAdd(set, x) == IF x \in Range(set) THEN set ELSE Append(set, x)

\* The while loop of extractKeys for one pattern, from position from.
RECURSIVE ExecLoop(_, _, _, _)
ExecLoop(p, s, from, keys) ==
    LET m == Exec(p, s, from) IN
    IF ~m.found THEN keys
    ELSE ExecLoop(p, s, m.end,
                  IF m.key # <<>> /\ NL \notin Range(m.key)
                  THEN SetAdd(keys, unescapeString(m.key))
                  ELSE keys)

RECURSIVE PatternLoop(_, _, _)
PatternLoop(p, s, keys) ==
    IF p > NumPatterns THEN keys
    ELSE PatternLoop(p + 1, s, ExecLoop(p, s, 1, keys))

extractKeys(source) == PatternLoop(1, source, <<>>)

(***************************************************************************)
(* Plain JavaScript objects, as LocaleMap values are.  An object is the    *)
(* sequence of its own enumerable properties in the order Object.keys and  *)
(* JSON.stringify list them: array indices in ascending numeric order,     *)
(* then the other strings in creation order.  Its prototype is             *)
(* Object.prototype.                                                       *)
(***************************************************************************)

EmptyObject == <<>>

K_constructor == <<"c", "o", "n", "s", "t", "r", "u", "c", "t", "o", "r">>
K_proto == <<"_", "_", "p", "r", "o", "t", "o", "_", "_">>

\* Property names a plain object inherits from Object.prototype (two of them:
\* a data property and the __proto__ accessor).
ObjectPrototypeNames == {K_constructor, K_proto}

\* Object.keys(obj)
ObjectKeys(obj) == [i \in 1..Len(obj) |-> obj[i].k]

HasOwn(obj, k) == \E i \in 1..Len(obj) : obj[i].k = k

\* obj[k] for an own property k
Get(obj, k) == obj[CHOOSE i \in 1..Len(obj) : obj[i].k = k].v

\* key in obj: own or inherited
In(k, obj) == HasOwn(obj, k) \/ k \in ObjectPrototypeNames

RECURSIVE NumVal(_)
NumVal(k) == IF k = <<>> THEN 0
             ELSE 10 * NumVal(SubSeq(k, 1, Len(k) - 1)) + DigitVal(k[Len(k)])

\* A canonical numeric string below 2^32 - 1.  Every such string of fewer than
\* ten digits is one; the keys of the model are shorter.
IsArrayIndex(k) ==
    /\ k # <<>>
    /\ Len(k) < 10
    /\ \A i \in 1..Len(k) : IsDigit(k[i])
    /\ (Len(k) > 1 => k[1] # "0")

\* Where a new own property k goes in the property order.
InsertPos(obj, k) ==
    IF IsArrayIndex(k)
    THEN LET later == {i \in 1..Len(obj) :
                          ~IsArrayIndex(obj[i].k) \/ NumVal(obj[i].k) > NumVal(k)}
         IN IF later = {} THEN Len(obj) + 1
            ELSE CHOOSE i \in later : \A j \in later : i <= j
    ELSE Len(obj) + 1

\* CreateDataProperty(obj, k, v): define or replace the own property k.
DefineOwn(obj, k, v) ==
    IF HasOwn(obj, k)
    THEN [i \in 1..Len(obj) |-> IF obj[i].k = k THEN [k |-> k, v |-> v] ELSE obj[i]]
    ELSE LET p == InsertPos(obj, k) IN
         SubSeq(obj, 1, p - 1) \o <<[k |-> k, v |-> v]>> \o SubSeq(obj, p, Len(obj))

\* obj[k] = v for a string v.  Without an own property __proto__, the
\* assignment reaches the __proto__ setter of Object.prototype, which ignores
\* a value that is neither an object nor null; the other inherited names are
\* writable data properties, which the assignment shadows.
Put(obj, k, v) ==
    IF k = K_proto /\ ~HasOwn(obj, k) THEN obj ELSE DefineOwn(obj, k, v)

\* a < b in code unit order, as the default comparison of Array.prototype.sort
RECURSIVE LexLess(_, _)
LexLess(a, b) ==
    IF b = <<>> THEN FALSE
    ELSE IF a = <<>> THEN TRUE
    ELSE IF a[1] = b[1] THEN LexLess(Tail(a), Tail(b))
    ELSE CharCode(a[1]) < CharCode(b[1])

RECURSIVE SortInsert(_, _)
SortInsert(sorted, k) ==
    IF sorted = <<>> THEN <<k>>
    ELSE IF LexLess(k, sorted[1]) THEN <<k>> \o sorted
    ELSE <<sorted[1]>> \o SortInsert(Tail(sorted), k)

\* keys.sort()
RECURSIVE Sort(_)
Sort(ks) == IF ks = <<>> THEN <<>> ELSE SortInsert(Sort(Tail(ks)), ks[1])

(***************************************************************************)
(* Locale files.  A file is absent, empty, not parseable, or JSON text of  *)
(* an object, which is the sequence of its members in text order.          *)
(***************************************************************************)

Absent == [kind |-> "absent", entries |-> <<>>]
EmptyFile == [kind |-> "empty", entries |-> <<>>]
Malformed == [kind |-> "malformed", entries |-> <<>>]
JsonFile(entries) == [kind |-> "json", entries |-> entries]

\* JSON.parse of an object text: members are defined in text order.
RECURSIVE ParseMembers(_, _)
ParseMembers(entries, obj) ==
    IF entries = <<>> THEN obj
    ELSE ParseMembers(Tail(entries), DefineOwn(obj, entries[1].k, entries[1].v))

JSONparse(entries) == ParseMembers(entries, EmptyObject)

\* JSON.stringify(obj, null, 2): the own properties in property order.
JSONstringify(obj) == obj

\* loadLocaleFile with the parse error swallowed
loadLocaleFile_Swallow(file) ==
    IF file.kind = "json"
    THEN [ok |-> TRUE, value |-> JSONparse(file.entries)]
    ELSE [ok |-> TRUE, value |-> EmptyObject]

\* loadLocaleFile: the dictionary, or the thrown error
loadLocaleFile(file) ==
    CASE file.kind = "absent" -> [ok |-> TRUE, value |-> EmptyObject]
      [] file.kind = "empty" -> [ok |-> TRUE, value |-> EmptyObject]
      [] file.kind = "malformed" -> [ok |-> FALSE, value |-> EmptyObject]
      [] file.kind = "json" -> [ok |-> TRUE, value |-> JSONparse(file.entries)]

\* The reduce of saveLocaleFile: acc[k] = obj[k] for the sorted keys.
RECURSIVE Reduce(_, _, _)
Reduce(ks, obj, acc) ==
    IF ks = <<>> THEN acc
    ELSE Reduce(Tail(ks), obj, Put(acc, ks[1], Get(obj, ks[1])))

\* saveLocaleFile: the text it builds for obj
SortedCopy(obj) == Reduce(Sort(ObjectKeys(obj)), obj, EmptyObject)

saveLocaleFile(obj) == JsonFile(JSONstringify(SortedCopy(obj)))

\* saveLocaleFile with the dry test left out
Writes_Always(isDry) == TRUE

\* saveLocaleFile writes only when dry is unset
Writes(isDry) == ~isDry

(***************************************************************************)
(* Reconciliation: the nested loop of runScan.                             *)
(***************************************************************************)

\* The value of a new entry with the master test left out
NewValue_NoMaster(loc, key, master, placeholder) ==
    IF placeholder = "copy" THEN key ELSE <<>>

\* The value runScan gives a new entry
NewValue(loc, key, master, placeholder) ==
    IF loc = master THEN key ELSE IF placeholder = "copy" THEN key ELSE <<>>

\* The inner loop's body with the membership test left out
AddMissing_NoTest(st, key, loc, master, placeholder) ==
    [data |-> [st.data EXCEPT ![loc] = Put(@, key, IF loc = master \/ placeholder = "copy"
                                                   THEN key ELSE <<>>)],
     total |-> st.total + 1,
     counts |-> [st.counts EXCEPT ![loc] = @ + 1]]

\* The inner loop's body with the per-locale counter left out
AddMissing_NoCount(st, key, loc, master, placeholder) ==
    IF ~In(key, st.data[loc])
    THEN [data |-> [st.data EXCEPT ![loc] = Put(@, key, IF loc = master \/ placeholder = "copy"
                                                        THEN key ELSE <<>>)],
          total |-> st.total + 1,
          counts |-> st.counts]
    ELSE st

\* One iteration of the inner loop
AddMissing(st, key, loc, master, placeholder) ==
    IF ~In(key, st.data[loc])
    THEN [data |-> [st.data EXCEPT ![loc] = Put(@, key, NewValue(loc, key, master, placeholder))],
          total |-> st.total + 1,
          counts |-> [st.counts EXCEPT ![loc] = @ + 1]]
    ELSE st

RECURSIVE LocaleLoop(_, _, _, _, _, _)
LocaleLoop(st, key, locales, j, master, placeholder) ==
    IF j > Len(locales) THEN st
    ELSE LocaleLoop(AddMissing(st, key, locales[j], master, placeholder),
                    key, locales, j + 1, master, placeholder)

RECURSIVE KeyLoop(_, _, _, _, _, _)
KeyLoop(st, found, i, locales, master, placeholder) ==
    IF i > Len(found) THEN st
    ELSE KeyLoop(LocaleLoop(st, found[i], locales, 1, master, placeholder),
                 found, i + 1, locales, master, placeholder)

\* keys.forEach(k => foundKeys.add(k))
RECURSIVE AddEach(_, _)
AddEach(set, ks) == IF ks = <<>> THEN set ELSE AddEach(SetAdd(set, ks[1]), Tail(ks))

\* Reading the files and collecting their keys (a file that cannot be read
\* is skipped)
RECURSIVE ScanFiles(_, _, _)
ScanFiles(files, i, found) ==
    IF i > Len(files) THEN found
    ELSE ScanFiles(files, i + 1,
                   IF files[i].readable THEN AddEach(found, extractKeys(files[i].text))
                   ELSE found)

(***************************************************************************)
(* State.                                                                  *)
(***************************************************************************)

VARIABLES
    store,            \* the locale files: locale -> file
    dirExists,        \* whether localesDir exists
    opts,             \* locales, master, placeholder of the project
    srcFiles,         \* the files the globs of opts.src resolve to
    dry,              \* opts.dry of this run
    pc,               \* where runScan is: idle, load, save, done, failed
    idx,              \* position in opts.locales of the load or persist loop
    filesScanned,     \* files.length
    foundKeys,        \* the keys found, in insertion order
    localeData,       \* locale -> dictionary, for the locales loaded so far
    addedTotal,
    perLocaleCounts,
    error,            \* the error runScan rejected with
    result,           \* the ScanResult returned
    before,           \* the files and directory when this run started
    loaded,           \* localeData as loaded, before reconciliation
    last,             \* the run before this one
    source,           \* extractKeys alone: the text
    keys,             \* extractKeys alone: the keys returned
    xpc,              \* extractKeys alone: off, compose, extracted
    nChunks           \* extractKeys alone: chunks appended to source

runVars == <<store, dirExists, opts, srcFiles, dry, pc, idx, filesScanned, foundKeys,
             localeData, addedTotal, perLocaleCounts, error, result, before,
             loaded, last>>
extractVars == <<source, keys, xpc, nChunks>>
vars == <<runVars, extractVars>>

(***************************************************************************)
(* Bounds and inputs.                                                      *)
(***************************************************************************)

MaxChunks == 5

AllLocales == {"en", "de"}
LocaleLists == {<<"en">>, <<"en", "de">>, <<"de", "en">>}
Masters == {"en", "de", "fr"}
Placeholders == {"copy", "empty"}

Entry(k, v) == [k |-> k, v |-> v]
Hello == <<"H", "e", "l", "l", "o">>

\* The locale files a run may find
SampleFiles ==
    { Absent, EmptyFile, Malformed,
      JsonFile(<<Entry(<<"a">>, Hello)>>),
      JsonFile(<<Entry(<<"b">>, <<>>), Entry(K_proto, <<"x">>)>>) }

Call(alias, q, content) == alias \o <<q>> \o content \o <<q, ")">>
File(text) == [readable |-> TRUE, text |-> text]
Unreadable == [readable |-> FALSE, text |-> <<>>]

\* The source trees a project may have
SampleSources ==
    { <<>>,
      <<File(Call(ShortAlias, SQ, <<"a">>) \o <<NL>> \o Call(VerboseAlias, DQ, <<"b">>))>>,
      <<Unreadable,
        File(Call(ShortAlias, SQ, <<"1", "0">>) \o Call(DirectiveAlias, DQ, <<"9">>)),
        File(Call(VerboseAlias, BT, <<"a">>))>>,
      <<File(Call(ShortAlias, SQ, K_constructor) \o <<SP>> \o Call(VerboseAlias, DQ, K_proto))>> }

\* The pieces a source text is composed of when extractKeys is checked alone
Chunks ==
    { ShortAlias, DirectiveAlias, <<")">>, <<BT>>, <<SQ>>, <<"$">>, <<"a">>, <<BS>> }

NoError == [kind |-> "none", file |-> "none"]
NoResult == [filesScanned |-> 0, keysFound |-> 0, added |-> 0, perLocaleCounts |-> <<>>]
NoRun == [outcome |-> "none", dry |-> FALSE, foundKeys |-> <<>>, result |-> NoResult,
          before |-> <<>>, after |-> <<>>]

(***************************************************************************)
(* runScan.                                                                *)
(***************************************************************************)

RunInit ==
    /\ store \in [AllLocales -> SampleFiles]
    /\ dirExists \in BOOLEAN
    /\ (\E l \in AllLocales : store[l] # Absent) => dirExists
    /\ opts \in [locales : LocaleLists, master : Masters, placeholder : Placeholders]
    /\ srcFiles \in SampleSources
    /\ dry = FALSE
    /\ pc = "idle"
    /\ idx = 1
    /\ filesScanned = 0
    /\ foundKeys = <<>>
    /\ localeData = <<>>
    /\ addedTotal = 0
    /\ perLocaleCounts = <<>>
    /\ error = NoError
    /\ result = NoResult
    /\ before = [store |-> store, dirExists |-> dirExists]
    /\ loaded = <<>>
    /\ last = NoRun

ExtractOff ==
    /\ source = <<>>
    /\ keys = <<>>
    /\ xpc = "off"
    /\ nChunks = 0

Init == RunInit /\ ExtractOff

\* What the run that just ended leaves for the next one to compare with
Summary ==
    [outcome |-> pc, dry |-> dry, foundKeys |-> foundKeys, result |-> result,
     before |-> before, after |-> [store |-> store, dirExists |-> dirExists]]

\* runScan is called: the globs are resolved and the files scanned
Start(d) ==
    /\ pc \in {"idle", "done", "failed"}
    /\ last' = IF pc = "idle" THEN last ELSE Summary
    /\ dry' = d
    /\ filesScanned' = Len(srcFiles)
    /\ foundKeys' = ScanFiles(srcFiles, 1, <<>>)
    /\ localeData' = <<>>
    /\ loaded' = <<>>
    /\ addedTotal' = 0
    /\ perLocaleCounts' = <<>>
    /\ error' = NoError
    /\ result' = NoResult
    /\ before' = [store |-> store, dirExists |-> dirExists]
    /\ idx' = 1
    /\ pc' = "load"
    /\ UNCHANGED <<store, dirExists, opts, srcFiles>>

\* One iteration of the loop that loads the locale files
LoadLocale ==
    /\ pc = "load"
    /\ idx <= Len(opts.locales)
    /\ LET loc == opts.locales[idx]
           r == loadLocaleFile(store[loc])
       IN IF r.ok
          THEN /\ localeData' = [l \in DOMAIN localeData \cup {loc} |->
                                    IF l = loc THEN r.value ELSE localeData[l]]
               /\ idx' = idx + 1
               /\ UNCHANGED <<pc, error>>
          ELSE /\ pc' = "failed"
               /\ error' = [kind |-> "parse", file |-> loc]
               /\ UNCHANGED <<localeData, idx>>
    /\ UNCHANGED <<store, dirExists, opts, srcFiles, dry, filesScanned, foundKeys,
                   addedTotal, perLocaleCounts, result, before, loaded, last>>

\* The loop that adds the missing entries
Reconcile ==
    /\ pc = "load"
    /\ idx > Len(opts.locales)
    /\ LET st == KeyLoop([data |-> localeData, total |-> 0,
                          counts |-> [l \in Range(opts.locales) |-> 0]],
                         foundKeys, 1, opts.locales, opts.master, opts.placeholder)
       IN /\ localeData' = st.data
          /\ addedTotal' = st.total
          /\ perLocaleCounts' = st.counts
    /\ loaded' = localeData
    /\ idx' = 1
    /\ pc' = "save"
    /\ UNCHANGED <<store, dirExists, opts, srcFiles, dry, filesScanned, foundKeys,
                   error, result, before, last>>

\* The persist loop's iteration with the write left out
SaveLocale_NoWrite ==
    /\ pc = "save"
    /\ idx <= Len(opts.locales)
    /\ idx' = idx + 1
    /\ UNCHANGED <<store, dirExists, opts, srcFiles, dry, pc, filesScanned, foundKeys,
                   localeData, addedTotal, perLocaleCounts, error, result, before,
                   loaded, last>>

\* One iteration of the persist loop: saveLocaleFile returns
SaveLocale ==
    /\ pc = "save"
    /\ idx <= Len(opts.locales)
    /\ LET loc == opts.locales[idx] IN
       IF Writes(dry)
       THEN /\ store' = [store EXCEPT ![loc] = saveLocaleFile(localeData[loc])]
            /\ dirExists' = TRUE
       ELSE UNCHANGED <<store, dirExists>>
    /\ idx' = idx + 1
    /\ UNCHANGED <<opts, srcFiles, dry, pc, filesScanned, foundKeys, localeData,
                   addedTotal, perLocaleCounts, error, result, before, loaded,
                   last>>

\* One iteration of the persist loop: mkdirSync or writeFileSync throws
SaveFails ==
    /\ pc = "save"
    /\ idx <= Len(opts.locales)
    /\ Writes(dry)
    /\ dirExists' \in {dirExists, TRUE}
    /\ pc' = "failed"
    /\ error' = [kind |-> "persist", file |-> opts.locales[idx]]
    /\ UNCHANGED <<store, opts, srcFiles, dry, idx, filesScanned, foundKeys,
                   localeData, addedTotal, perLocaleCounts, result, before,
                   loaded, last>>

\* runScan returns its ScanResult
Finish ==
    /\ pc = "save"
    /\ idx > Len(opts.locales)
    /\ result' = [filesScanned |-> filesScanned, keysFound |-> Len(foundKeys),
                  added |-> addedTotal, perLocaleCounts |-> perLocaleCounts]
    /\ pc' = "done"
    /\ UNCHANGED <<store, dirExists, opts, srcFiles, dry, idx, filesScanned,
                   foundKeys, localeData, addedTotal, perLocaleCounts, error,
                   before, loaded, last>>

Next ==
    \/ (\E d \in BOOLEAN : Start(d)) /\ UNCHANGED extractVars
    \/ LoadLocale /\ UNCHANGED extractVars
    \/ Reconcile /\ UNCHANGED extractVars
    \/ SaveLocale /\ UNCHANGED extractVars
    \/ SaveFails /\ UNCHANGED extractVars
    \/ Finish /\ UNCHANGED extractVars

Spec == Init /\ [][Next]_vars

(***************************************************************************)
(* extractKeys alone, over composed source texts.                          *)
(***************************************************************************)

InitExtract ==
    /\ RunInit
    /\ store = [l \in AllLocales |-> Absent]
    /\ ~dirExists
    /\ opts = [locales |-> <<"en">>, master |-> "en", placeholder |-> "copy"]
    /\ srcFiles = <<>>
    /\ source = <<>>
    /\ keys = <<>>
    /\ xpc = "compose"
    /\ nChunks = 0

AppendChunk(c) ==
    /\ xpc = "compose"
    /\ nChunks < MaxChunks
    /\ source' = source \o c
    /\ nChunks' = nChunks + 1
    /\ UNCHANGED <<keys, xpc>>

Extract ==
    /\ xpc = "compose"
    /\ keys' = extractKeys(source)
    /\ xpc' = "extracted"
    /\ UNCHANGED <<source, nChunks>>

NextExtract ==
    \/ (\E c \in Chunks : AppendChunk(c)) /\ UNCHANGED runVars
    \/ Extract /\ UNCHANGED runVars

SpecExtract == InitExtract /\ [][NextExtract]_vars

(***************************************************************************)
(* Properties.                                                             *)
(***************************************************************************)

Configured == Range(opts.locales)

Reconciled == pc \in {"save", "done"}

\* The entries reconciliation added to the dictionary of loc
AddedEntries(loc) == {e \in Range(localeData[loc]) : ~HasOwn(loaded[loc], e.k)}

\* The dictionary a file holds
FileDict(file) == IF file.kind = "json" THEN JSONparse(file.entries) ELSE EmptyObject

RECURSIVE SumOver(_, _)
SumOver(f, S) ==
    IF S = {} THEN 0
    ELSE LET x == CHOOSE y \in S : TRUE IN f[x] + SumOver(f, S \ {x})

StrictlyAscending(ks) == \A i \in 1..(Len(ks) - 1) : LexLess(ks[i], ks[i + 1])

\* C1: every entry of a configured locale's loaded dictionary is, with the same
\* value, an entry of the dictionary after reconciliation and of the
\* dictionary a completed non-dry run has persisted.
C1_NonDestructive ==
    /\ Reconciled =>
          \A loc \in Configured : \A e \in Range(loaded[loc]) :
              e \in Range(localeData[loc])
    /\ (pc = "done" /\ ~dry) =>
          \A loc \in Configured : \A e \in Range(loaded[loc]) :
              e \in Range(FileDict(store[loc]))

\* C2: after reconciliation every discovered key is an entry of the dictionary
\* of every configured locale.
C2_Complete ==
    Reconciled =>
        \A loc \in Configured : \A i \in 1..Len(foundKeys) :
            HasOwn(localeData[loc], foundKeys[i])

\* C3: an entry reconciliation adds has the key as its value in the master
\* locale, and in another locale the key under "copy" and the empty string
\* under "empty".
C3_ValuePolicy ==
    Reconciled =>
        \A loc \in Configured : \A e \in AddedEntries(loc) :
            e.v = IF loc = opts.master THEN e.k
                  ELSE IF opts.placeholder = "copy" THEN e.k
                  ELSE <<>>

C3_Witness ==
    /\ pc = "save"
    /\ opts.placeholder = "empty"
    /\ opts.master \in Configured
    /\ AddedEntries(opts.master) # {}
    /\ \E loc \in Configured \ {opts.master} :
          \E e \in AddedEntries(loc) : e.k # <<>> /\ e.v = <<>>

\* A run has completed after a completed non-dry run with the same discovered
\* keys, from the files that run left
SecondRun ==
    /\ pc = "done"
    /\ last.outcome = "done"
    /\ ~last.dry
    /\ Range(last.foundKeys) = Range(foundKeys)
    /\ before = last.after

\* C4: a run that completes after a completed non-dry run with the same
\* discovered keys, starting from the files that run left, reports added = 0
\* and a zero count for every locale, and changes no dictionary and no file.
C4_Idempotent ==
    SecondRun =>
        /\ result.added = 0
        /\ \A loc \in Configured : result.perLocaleCounts[loc] = 0
        /\ \A loc \in Configured : localeData[loc] = loaded[loc]
        /\ store = before.store

C4_Witness ==
    /\ SecondRun
    /\ ~dry
    /\ last.result.added > 0
    /\ Len(opts.locales) = 2

\* The example run: locales [en, de], master en, copy, en = {a: Hello},
\* de = {}, keys {a, b}
ExampleRun ==
    /\ opts = [locales |-> <<"en", "de">>, master |-> "en", placeholder |-> "copy"]
    /\ Range(foundKeys) = {<<"a">>, <<"b">>}
    /\ loaded = [l \in {"en", "de"} |->
                    IF l = "en" THEN <<Entry(<<"a">>, Hello)>> ELSE EmptyObject]

\* C5: perLocaleCounts has an entry for every configured locale, equal to the
\* number of entries the run added to that locale's dictionary, and added is
\* the sum of these counts; the returned ScanResult carries both.  With
\* locales [en, de], master en, copy, en = {a: Hello}, de = {} and keys {a, b},
\* added = 3 and the counts are en: 1, de: 2.
C5_Counters ==
    /\ Reconciled =>
          /\ DOMAIN perLocaleCounts = Configured
          /\ \A loc \in Configured :
                perLocaleCounts[loc] = Len(localeData[loc]) - Len(loaded[loc])
          /\ addedTotal = SumOver(perLocaleCounts, Configured)
    /\ pc = "done" =>
          /\ result.added = addedTotal
          /\ result.perLocaleCounts = perLocaleCounts
    /\ (pc = "done" /\ ExampleRun) =>
          /\ result.added = 3
          /\ result.perLocaleCounts = [l \in {"en", "de"} |-> IF l = "en" THEN 1 ELSE 2]

C5_Witness == pc = "done" /\ ExampleRun

\* The positions of the locale list whose file held invalid JSON when the run
\* started
MalformedAt == {i \in 1..Len(opts.locales) : before.store[opts.locales[i]].kind = "malformed"}

\* C6: when the file of a configured locale holds invalid JSON, the run never
\* gets past loading, ends failed with a parse error that names the first such
\* file of the locale list, and leaves every file and the directory as they
\* were.
C6_MalformedFatal ==
    (pc # "idle" /\ MalformedAt # {}) =>
        /\ pc \in {"load", "failed"}
        /\ \A i \in MalformedAt : idx <= i
        /\ store = before.store
        /\ dirExists = before.dirExists
        /\ pc = "failed" =>
              /\ error.kind = "parse"
              /\ idx \in MalformedAt
              /\ error.file = opts.locales[idx]

C6_Witness ==
    /\ pc = "failed"
    /\ error.kind = "parse"
    /\ idx = 2
    /\ ~dry
    /\ foundKeys # <<>>
    /\ before.store[opts.locales[1]].kind = "json"

\* C7: a dry run changes no file and creates no directory, and a run returns
\* the same ScanResult as the run with the other value of dry that started
\* from the same files.
C7_DryRun ==
    /\ (dry /\ pc # "idle") => (store = before.store /\ dirExists = before.dirExists)
    /\ (/\ pc = "done"
        /\ last.outcome = "done"
        /\ last.dry # dry
        /\ last.before = before) => result = last.result

C7_Witness ==
    /\ pc = "done"
    /\ ~dry
    /\ last.outcome = "done"
    /\ last.dry
    /\ last.before = before
    /\ result.added > 0
    /\ store # before.store

\* C8: the text saveLocaleFile produces for a dictionary lists its keys in
\* strictly ascending lexicographic order.
C8_SortedOutput ==
    Reconciled =>
        \A loc \in Configured :
            StrictlyAscending(ObjectKeys(saveLocaleFile(localeData[loc]).entries))

\* The backtick-quoted arguments of __ and trans calls that contain a $
InterpolatedArgs(s) ==
    LET ends == {je \in (1..Len(s)) \X (1..Len(s)) :
                    /\ je[1] + 1 < je[2]
                    /\ s[je[1]] = BT
                    /\ s[je[2]] = BT
                    /\ \A m \in (je[1] + 1)..(je[2] - 1) : s[m] # BT
                    /\ \E m \in (je[1] + 1)..(je[2] - 1) : s[m] = "$"
                    /\ \E i \in 1..je[1] :
                          AliasEnd(s, i) # 0 /\ SkipSpace(s, AliasEnd(s, i)) = je[1]
                    /\ SkipSpace(s, je[2] + 1) <= Len(s)
                    /\ s[SkipSpace(s, je[2] + 1)] = ")"}
    IN {SubSeq(s, je[1] + 1, je[2] - 1) : je \in ends}

\* The single- or double-quoted arguments of the calls of the text
PlainArgs(s) ==
    LET ends == {je \in (1..Len(s)) \X (1..Len(s)) :
                    /\ je[1] + 1 < je[2]
                    /\ s[je[1]] \in {SQ, DQ}
                    /\ s[je[2]] = s[je[1]]
                    /\ QuotedEnd(s, je[1] + 1, s[je[1]]) = je[2]
                    /\ \E i \in 1..je[1] :
                          \/ AliasEnd(s, i) # 0 /\ SkipSpace(s, AliasEnd(s, i)) = je[1]
                          \/ DirectiveEnd(s, i) # 0 /\ SkipSpace(s, DirectiveEnd(s, i)) = je[1]
                    /\ SkipSpace(s, je[2] + 1) <= Len(s)
                    /\ s[SkipSpace(s, je[2] + 1)] = ")"}
    IN {SubSeq(s, je[1] + 1, je[2] - 1) : je \in ends}

\* C9: a call of __ or trans whose backtick-quoted argument contains a $
\* contributes no key: its content is a key of the result only if the text
\* also holds a call with that content in single or double quotes.
C9_NoInterpolated ==
    xpc = "extracted" =>
        \A c \in InterpolatedArgs(source) :
            unescapeString(c) \in Range(keys) => c \in PlainArgs(source)

Persisted == {opts.locales[j] : j \in 1..(idx - 1)}

====
